---- MODULE Spec2Model ----
(***************************************************************************)
(* Model of business_object_search/db.py: the Neo4jDatabase connection     *)
(* manager (singleton construction, connect, close), the scoped session    *)
(* (get_session) and the query helpers built on it (execute_query,         *)
(* fetch_all, fetch_one, create_constraints).                              *)
(*                                                                         *)
(* Each thread executes the methods statement by statement; every read or  *)
(* write of shared state (cls._instance, self._initialized, self._driver)  *)
(* is its own step, so that Next interleaves threads the way the           *)
(* interpreter can.  Thread 1 is the thread that imports the module: it     *)
(* starts at line 146 (db = Neo4jDatabase()); no other thread can reach the *)
(* class before the import has bound the module global db.                  *)
(*                                                                         *)
(* SpecModels and SpecFilter model business_object_search/models.py: the   *)
(* enumeration validators of RuleCreate and RuleUpdate, and RuleFilter.    *)
(* The repository operations that apply an update and answer a search are  *)
(* not part of the sources; they follow sections 4.4 and 4.5 of the        *)
(* specification.                                                          *)
(***************************************************************************)
EXTENDS Integers, Sequences, FiniteSets, Bags, TLC

\* ---------------------------------------------------------------- bounds
\* operations the callers start in a run: of interleaved threads, of one thread
MaxOps == 2
MaxSeqOps == 4
\* rows a query matches
MaxRows == 2
\* letters of a configured name that an input spells in upper case
MaxUpper == 2
\* fields a caller gives to a RuleFilter
MaxGiven == 2

\* ------------------------------------------------------------- constants
\* None, as the value of a reference (self._driver = None, cls._instance = None)
NONE == 0
\* the value the liveness probe must return (if test_value != 1)
Sentinel == 1

\* two threads; "main" is the one that imports the module
Threads == {"main", "worker"}
Importer == "main"

VARIABLES
    cls_instance,   \* Neo4jDatabase._instance: NONE or an index of instances
    db,             \* the module global db: NONE until the import has bound it
    instances,      \* the Neo4jDatabase objects: [initialized, driver, inits]
    drivers,        \* the Driver objects created: [open, probed]
    sessions,       \* the Session objects each thread has created, in order:
                    \* [driver, closes, probe]; session <<t, i>> is the i-th of t
    constraints,    \* the uniqueness constraints the store holds (a bag of names)
    store,          \* the rows the store holds for the query a fetch runs
    threads,        \* per thread: program counter and locals (tv is <<>> until
                    \* test_value is assigned; afterClose is a ghost: the call
                    \* this thread made just before the current one was close())
    opsLeft,        \* operations the callers may still start (bounds the run)
    established,    \* ghost: the driver the last successful connect() returned,
                    \* NONE once close() has been called since
    form            \* the models layer: the arguments given to a model class and
                    \* the object built from them (NoForm while only db is used)

dbvars == <<cls_instance, db, instances, drivers, sessions, constraints, store, threads,
            opsLeft, established>>
vars == <<dbvars, form>>

\* ------------------------------------------------------------ data values
\* Errors are [type, msg].
Err(type, msg) == [type |-> type, msg |-> msg]
NoErr == Err("", "")
\* raise ServiceUnavailable("Database connection test failed")
ConnectionVerificationFailed ==
    Err("ServiceUnavailable", "Database connection test failed")
\* what the driver itself raises while connecting or probing
ConnectErrors == {Err("ServiceUnavailable", "transport"), Err("AuthError", "credentials")}
\* what can be raised while a session is in use: an Exception (a failing query,
\* a lost connection), or the scope being abandoned (thrown in at the yield)
BodyErrors == {Err("ClientError", "query"), Err("GeneratorExit", "abandoned")}
\* 'NoneType' object has no attribute ...
AttributeError == Err("AttributeError", "NoneType")

\* values the probe query can come back with
ProbeValues == {0, Sentinel}

\* Return values are [kind, val].
RetNone == [kind |-> "none", val |-> NONE]
RetDriver(d) == IF d = NONE THEN RetNone ELSE [kind |-> "driver", val |-> d]
RetInstance(i) == [kind |-> "instance", val |-> i]
RetResult(s) == [kind |-> "result", val |-> s]
RetList(l) == [kind |-> "list", val |-> l]
RetDict(m) == [kind |-> "dict", val |-> m]

\* A record of a result is the sequence of its <<column, value>> pairs, in the
\* order of the RETURN clause (column names are distinct within a record).
RecordPool == { << <<"id", 1>> >>, << <<"name", 2>>, <<"id", 1>> >> }

RECURSIVE SeqsUpTo(_, _)
SeqsUpTo(S, n) ==
    IF n = 0 THEN {<<>>}
    ELSE LET shorter == SeqsUpTo(S, n - 1)
         IN shorter \cup {Append(q, x) : q \in {r \in shorter : Len(r) = n - 1}, x \in S}

\* the row sequences a query can match
RowSeqs == SeqsUpTo(RecordPool, MaxRows)
\* a store in which the query matches two rows of different shapes
TwoRows == << << <<"name", 2>>, <<"id", 1>> >>, << <<"id", 1>> >> >>

\* Record.data(): the record as a dict, column -> value
Data(rec) ==
    [k \in {rec[i][1] : i \in DOMAIN rec} |->
        (CHOOSE p \in {rec[i] : i \in DOMAIN rec} : p[1] = k)[2]]

\* bool(record): a Record is a tuple, truthy iff it has a column; None is falsy
NoRecord == <<>>
Truthy(rec) == Len(rec) > 0

\* Result.single() (strict=False): None without records, else the first record
\* (a warning, not an error, when there are more)
Single(rows) == IF Len(rows) = 0 THEN NoRecord ELSE rows[1]

\* what result.single() raises: nothing, whatever the number of records (only
\* single(strict=True) raises on a result that is not of one record)
SingleRaisesStrict(rows) ==
    IF Len(rows) > 1 THEN Err("ResultNotSingleError", "multiple records") ELSE NoErr
SingleRaises(rows) == NoErr

\* [record.data() for record in result]
FetchAllNoneOnEmpty(rows) ==
    IF Len(rows) = 0 THEN RetNone ELSE RetList([i \in 1 .. Len(rows) |-> Data(rows[i])])
FetchAllValue(rows) == RetList([i \in 1 .. Len(rows) |-> Data(rows[i])])

\* record.data() if record else None
FetchOneFlipped(rows) ==
    LET record == Single(rows)
    IN IF Truthy(record) THEN RetNone ELSE RetDict(Data(record))
FetchOneValue(rows) ==
    LET record == Single(rows)
    IN IF Truthy(record) THEN RetDict(Data(record)) ELSE RetNone

\* the three statements of create_constraints, in order
ConstraintNames == <<"rule_id", "data_element_id", "category_name">>

\* The store executes CREATE CONSTRAINT <name> IF NOT EXISTS ...: a constraint
\* that exists is left alone and the statement succeeds.  Without IF NOT EXISTS
\* the store would refuse the second creation.
AlreadyExists == Err("ClientError", "constraint already exists")
CreateConstraintPlain(cs, name) ==
    IF BagIn(name, cs)
    THEN [constraints |-> cs, err |-> AlreadyExists]
    ELSE [constraints |-> cs (+) SetToBag({name}), err |-> NoErr]
CreateConstraint(cs, name) ==
    [constraints |-> IF BagIn(name, cs) THEN cs ELSE cs (+) SetToBag({name}),
     err |-> NoErr]

\* except Exception as e: logger.error(...); raise
Swallowed(e) == FALSE
Reraised(e) == e # NoErr

\* ------------------------------------------------------------- operations
Ops == {"construct", "connect", "close", "execute_query", "fetch_all", "fetch_one",
        "create_constraints"}

IdlePcs == {"idle", "done", "raised"}

NoSession == <<"", NONE>>
Thread0 == [pc |-> "idle", op |-> "", self |-> NONE, driver |-> NONE,
            session |-> NoSession, tv |-> <<>>, rows |-> <<>>, ci |-> 0,
            ret |-> RetNone, err |-> NoErr, afterClose |-> FALSE]

Upd(t, r) == [threads EXCEPT ![t] = r]
Me(t) == threads[t]

\* no model object is being built
NoForm == [pc |-> "none"]

\* The module is being imported: the class exists (_instance = None), line 146
\* is about to run on the importing thread, and nothing has been created yet.
InitBut ==
    /\ cls_instance = NONE
    /\ db = NONE
    /\ instances = <<>>
    /\ drivers = <<>>
    /\ sessions = [t \in Threads |-> <<>>]
    /\ constraints = EmptyBag
    /\ threads = [t \in Threads |->
                    IF t = Importer
                    THEN [Thread0 EXCEPT !.pc = "new_check", !.op = "import"]
                    ELSE Thread0]
    /\ established = NONE

\* the import starts against a store in which the query matches two rows
Init == InitBut /\ store = TwoRows /\ opsLeft = MaxOps /\ form = NoForm
InitSeq == InitBut /\ store = TwoRows /\ opsLeft = MaxSeqOps /\ form = NoForm
\* the import starts against any store
InitRows == InitBut /\ store \in RowSeqs /\ opsLeft = MaxSeqOps /\ form = NoForm


\* ---------------------------------------------------------------- helpers
\* the operation returns r, or raises e, to its caller; its locals are gone
Done(t, r) == [Me(t) EXCEPT !.pc = "done", !.ret = r, !.err = NoErr, !.self = NONE,
                            !.driver = NONE, !.session = NoSession]
Raise(t, e) == [Me(t) EXCEPT !.pc = "raised", !.ret = RetNone, !.err = e, !.self = NONE,
                             !.driver = NONE, !.session = NoSession]
Goto(t, pc) == [Me(t) EXCEPT !.pc = pc]

\* session.close()
CloseSession(ss, s) == [ss EXCEPT ![s[1]][s[2]].closes = @ + 1]
NewSession(d, probe) == [driver |-> d, closes |-> 0, probe |-> probe]

\* the first statement an operation executes
FirstPc(op) ==
    CASE op = "construct" -> "new_check"
      [] op = "close" -> "cl_check"
      [] OTHER -> "c_check"

\* A caller invokes an operation of the module.  Nothing can be called before
\* the import has bound db.
Start(t) ==
    /\ Me(t).pc \in IdlePcs
    /\ db # NONE
    /\ opsLeft > 0
    /\ \E op \in Ops :
        threads' = Upd(t, [Thread0 EXCEPT !.pc = FirstPc(op), !.op = op,
                                          !.ci = IF op = "create_constraints" THEN 1 ELSE 0,
                                          !.afterClose = Me(t).op = "close"])
    /\ opsLeft' = opsLeft - 1
    /\ UNCHANGED form
    /\ UNCHANGED <<cls_instance, db, instances, drivers, sessions, constraints, store, established>>

\* ------------------------------------------------- __new__ and __init__
\* if cls._instance is None
InstanceMissing(ci) == ci = NONE

NewCheck(t) ==
    /\ Me(t).pc = "new_check"
    /\ threads' = Upd(t, Goto(t, IF InstanceMissing(cls_instance)
                                 THEN "new_create" ELSE "new_return"))
    /\ UNCHANGED form
    /\ UNCHANGED <<cls_instance, db, instances, drivers, sessions, constraints, store, opsLeft,
                   established>>

\* cls._instance = super().__new__(cls); cls._instance._initialized = False
NewCreate(t) ==
    /\ Me(t).pc = "new_create"
    /\ instances' = Append(instances, [initialized |-> FALSE, driver |-> NONE, inits |-> 0])
    /\ cls_instance' = Len(instances) + 1
    /\ threads' = Upd(t, Goto(t, "new_return"))
    /\ UNCHANGED form
    /\ UNCHANGED <<db, drivers, sessions, constraints, store, opsLeft, established>>

\* return cls._instance
NewReturn(t) ==
    /\ Me(t).pc = "new_return"
    /\ threads' = Upd(t, [Me(t) EXCEPT !.pc = "init_check", !.self = cls_instance])
    /\ UNCHANGED form
    /\ UNCHANGED <<cls_instance, db, instances, drivers, sessions, constraints, store, opsLeft,
                   established>>

\* if self._initialized: return
AlreadyInitializedNever(inst) == FALSE
AlreadyInitialized(inst) == inst.initialized

\* where a finished construction continues: the import binds db, a caller is done
Constructed(t) ==
    IF Me(t).op = "import" THEN Goto(t, "bind") ELSE Done(t, RetInstance(Me(t).self))

InitCheck(t) ==
    /\ Me(t).pc = "init_check"
    /\ threads' = Upd(t, IF AlreadyInitialized(instances[Me(t).self])
                         THEN Constructed(t) ELSE Goto(t, "init_assign"))
    /\ UNCHANGED form
    /\ UNCHANGED <<cls_instance, db, instances, drivers, sessions, constraints, store, opsLeft,
                   established>>

\* self.uri = ...; self._driver = None; self._initialized = True
InitAssign(t) ==
    /\ Me(t).pc = "init_assign"
    /\ instances' = [instances EXCEPT ![Me(t).self] =
                        [initialized |-> TRUE, driver |-> NONE, inits |-> @.inits + 1]]
    /\ threads' = Upd(t, Constructed(t))
    /\ UNCHANGED form
    /\ UNCHANGED <<cls_instance, db, drivers, sessions, constraints, store, opsLeft, established>>

\* db = Neo4jDatabase()
Bind(t) ==
    /\ Me(t).pc = "bind"
    /\ db' = Me(t).self
    /\ threads' = Upd(t, Done(t, RetInstance(Me(t).self)))
    /\ UNCHANGED form
    /\ UNCHANGED <<cls_instance, instances, drivers, sessions, constraints, store, opsLeft,
                   established>>

\* ----------------------------------------------------------------- connect
\* if not self._driver
NeedsDriverAlways(inst) == TRUE
NeedsDriver(inst) == inst.driver = NONE

ConnectCheck(t) ==
    /\ Me(t).pc = "c_check"
    /\ threads' = Upd(t, Goto(t, IF NeedsDriver(instances[db]) THEN "c_create" ELSE "c_return"))
    /\ UNCHANGED form
    /\ UNCHANGED <<cls_instance, db, instances, drivers, sessions, constraints, store, opsLeft,
                   established>>

\* self._driver = GraphDatabase.driver(...): a new Driver, or the driver raises
ConnectCreate(t) ==
    /\ Me(t).pc = "c_create"
    /\ \/ /\ drivers' = Append(drivers, [open |-> TRUE, probed |-> FALSE])
          /\ instances' = [instances EXCEPT ![db].driver = Len(drivers) + 1]
          /\ threads' = Upd(t, Goto(t, "c_probe_open"))
       \/ /\ \E e \in ConnectErrors : threads' = Upd(t, Raise(t, e))
          /\ UNCHANGED <<drivers, instances>>
    /\ UNCHANGED form
    /\ UNCHANGED <<cls_instance, db, sessions, constraints, store, opsLeft, established>>

\* with self._driver.session(database=self.database) as session
ConnectProbeOpen(t) ==
    /\ Me(t).pc = "c_probe_open"
    /\ LET d == instances[db].driver IN
        IF d = NONE
        THEN /\ threads' = Upd(t, Raise(t, AttributeError))
             /\ UNCHANGED sessions
        ELSE /\ sessions' = [sessions EXCEPT ![t] = Append(@, NewSession(d, TRUE))]
             /\ threads' = Upd(t, [Me(t) EXCEPT !.pc = "c_probe",
                                                !.session = <<t, Len(sessions[t]) + 1>>])
    /\ UNCHANGED form
    /\ UNCHANGED <<cls_instance, db, instances, drivers, constraints, store, opsLeft, established>>

\* if test_value != 1: raise
ProbeOkAny(v) == TRUE
ProbeOk(v) == v = Sentinel

\* result = session.run("RETURN 1 AS test"); test_value = result.single()["test"];
\* the comparison; the session is closed when the with block is left, either way
ConnectProbe(t) ==
    /\ Me(t).pc = "c_probe"
    /\ LET s == Me(t).session IN
        /\ sessions' = CloseSession(sessions, s)
        /\ \/ \E e \in ConnectErrors :
                /\ threads' = Upd(t, Raise(t, e))
                /\ UNCHANGED drivers
           \/ \E v \in ProbeValues :
                IF ProbeOk(v)
                THEN /\ threads' = Upd(t, [Me(t) EXCEPT !.pc = "c_return", !.tv = <<v>>,
                                                        !.session = NoSession])
                     /\ drivers' = [drivers EXCEPT ![sessions[s[1]][s[2]].driver].probed = TRUE]
                ELSE /\ threads' = Upd(t, [Raise(t, ConnectionVerificationFailed)
                                             EXCEPT !.tv = <<v>>])
                     /\ UNCHANGED drivers
    /\ UNCHANGED form
    /\ UNCHANGED <<cls_instance, db, instances, constraints, store, opsLeft, established>>

\* return self._driver: to the caller of connect(), or to get_session
ConnectReturn(t) ==
    /\ Me(t).pc = "c_return"
    /\ LET d == instances[db].driver IN
        /\ threads' = Upd(t, IF Me(t).op = "connect"
                             THEN Done(t, RetDriver(d))
                             ELSE [Me(t) EXCEPT !.pc = "g_open", !.driver = d])
        /\ established' = IF established = NONE THEN d ELSE established
    /\ UNCHANGED form
    /\ UNCHANGED <<cls_instance, db, instances, drivers, sessions, constraints, store, opsLeft>>

\* ------------------------------------------------------------------- close
\* if self._driver
HoldsDriver(inst) == inst.driver # NONE

CloseCheck(t) ==
    /\ Me(t).pc = "cl_check"
    /\ threads' = Upd(t, IF HoldsDriver(instances[db])
                         THEN Goto(t, "cl_close") ELSE Done(t, RetNone))
    /\ established' = NONE
    /\ UNCHANGED form
    /\ UNCHANGED <<cls_instance, db, instances, drivers, sessions, constraints, store, opsLeft>>

\* self._driver.close()
DriverCloseSkipped(ds, d) == ds
DriverClosed(ds, d) == [ds EXCEPT ![d].open = FALSE]

CloseDriver(t) ==
    /\ Me(t).pc = "cl_close"
    /\ LET d == instances[db].driver IN
        IF d = NONE
        THEN /\ threads' = Upd(t, Raise(t, AttributeError))
             /\ UNCHANGED drivers
        ELSE /\ drivers' = DriverClosed(drivers, d)
             /\ threads' = Upd(t, Goto(t, "cl_clear"))
    /\ UNCHANGED form
    /\ UNCHANGED <<cls_instance, db, instances, sessions, constraints, store, opsLeft, established>>

\* self._driver = None
DriverKept(inst) == inst
DriverCleared(inst) == [inst EXCEPT !.driver = NONE]

CloseClear(t) ==
    /\ Me(t).pc = "cl_clear"
    /\ instances' = [instances EXCEPT ![db] = DriverCleared(@)]
    /\ threads' = Upd(t, Done(t, RetNone))
    /\ UNCHANGED form
    /\ UNCHANGED <<cls_instance, db, drivers, sessions, constraints, store, opsLeft, established>>

\* ------------------------------------------------------------- get_session
\* session = driver.session(database=self.database): a new Session every time
GetSessionShared(ss, d, t) ==
    LET open == {id \in UNION {{u} \X DOMAIN ss[u] : u \in Threads} :
                    /\ ss[id[1]][id[2]].driver = d
                    /\ ss[id[1]][id[2]].closes = 0}
    IN IF open # {}
       THEN [sessions |-> ss, id |-> CHOOSE id \in open : TRUE]
       ELSE [sessions |-> [ss EXCEPT ![t] = Append(@, NewSession(d, FALSE))],
             id |-> <<t, Len(ss[t]) + 1>>]
GetSession(ss, d, t) ==
    [sessions |-> [ss EXCEPT ![t] = Append(@, NewSession(d, FALSE))],
     id |-> <<t, Len(ss[t]) + 1>>]

\* driver = self.connect() has returned; session = driver.session(...)
SessionOpen(t) ==
    /\ Me(t).pc = "g_open"
    /\ IF Me(t).driver = NONE
       THEN /\ threads' = Upd(t, Raise(t, AttributeError))
            /\ UNCHANGED sessions
       ELSE LET got == GetSession(sessions, Me(t).driver, t) IN
            /\ sessions' = got.sessions
            /\ threads' = Upd(t, [Me(t) EXCEPT !.pc = "run", !.session = got.id])
    /\ UNCHANGED form
    /\ UNCHANGED <<cls_instance, db, instances, drivers, constraints, store, opsLeft, established>>

\* session.run(query, params or {}) inside the with block: the store answers
\* (rows for a fetch, the constraint for CREATE CONSTRAINT ... IF NOT EXISTS), or
\* an exception is raised in the block
Run(t) ==
    /\ Me(t).pc = "run"
    /\ \/ /\ \E e \in BodyErrors : threads' = Upd(t, [Me(t) EXCEPT !.pc = "g_finally", !.err = e])
          /\ UNCHANGED constraints
       \/ /\ Me(t).op = "execute_query"
          /\ threads' = Upd(t, [Me(t) EXCEPT !.pc = "g_finally",
                                             !.ret = RetResult(Me(t).session)])
          /\ UNCHANGED constraints
       \/ /\ Me(t).op = "create_constraints"
          /\ LET made == CreateConstraint(constraints, ConstraintNames[Me(t).ci]) IN
             /\ constraints' = made.constraints
             /\ threads' = Upd(t, [Me(t) EXCEPT !.pc = "g_finally", !.err = made.err])
       \/ /\ Me(t).op = "fetch_all"
          /\ threads' = Upd(t, [Me(t) EXCEPT !.pc = "fa_list", !.rows = store])
          /\ UNCHANGED constraints
       \/ /\ Me(t).op = "fetch_one"
          /\ threads' = Upd(t, [Me(t) EXCEPT !.pc = "fo_single", !.rows = store])
          /\ UNCHANGED constraints
    /\ UNCHANGED form
    /\ UNCHANGED <<cls_instance, db, instances, drivers, sessions, store, opsLeft, established>>

\* return [record.data() for record in result]
FetchAllList(t) ==
    /\ Me(t).pc = "fa_list"
    /\ \/ \E e \in BodyErrors : threads' = Upd(t, [Me(t) EXCEPT !.pc = "g_finally", !.err = e])
       \/ threads' = Upd(t, [Me(t) EXCEPT !.pc = "g_finally", !.ret = FetchAllValue(Me(t).rows)])
    /\ UNCHANGED form
    /\ UNCHANGED <<cls_instance, db, instances, drivers, sessions, constraints, store, opsLeft,
                   established>>

\* record = result.single(); return record.data() if record else None
FetchOneSingle(t) ==
    /\ Me(t).pc = "fo_single"
    /\ \/ \E e \in BodyErrors : threads' = Upd(t, [Me(t) EXCEPT !.pc = "g_finally", !.err = e])
       \/ threads' = Upd(t, IF SingleRaises(Me(t).rows) # NoErr
                            THEN [Me(t) EXCEPT !.pc = "g_finally",
                                               !.err = SingleRaises(Me(t).rows)]
                            ELSE [Me(t) EXCEPT !.pc = "g_finally",
                                               !.ret = FetchOneValue(Me(t).rows)])
    /\ UNCHANGED form
    /\ UNCHANGED <<cls_instance, db, instances, drivers, sessions, constraints, store, opsLeft,
                   established>>

\* finally: session.close()
ReleaseOnSuccessOnly(ss, s, err) == IF err = NoErr THEN CloseSession(ss, s) ELSE ss
ReleaseSession(ss, s, err) == CloseSession(ss, s)

\* The with block is left: the session is released, then the exception goes on
\* to the caller (create_constraints logs and re-raises it), or the operation
\* returns, or create_constraints goes on to its next statement.
SessionFinally(t) ==
    /\ Me(t).pc = "g_finally"
    /\ sessions' = ReleaseSession(sessions, Me(t).session, Me(t).err)
    /\ threads' = Upd(t,
        IF Me(t).op = "create_constraints"
        THEN IF Reraised(Me(t).err)
             THEN Raise(t, Me(t).err)
             ELSE IF Me(t).ci < Len(ConstraintNames)
             THEN [Me(t) EXCEPT !.pc = "c_check", !.ci = @ + 1, !.session = NoSession,
                                !.driver = NONE, !.err = NoErr]
             ELSE Done(t, RetNone)
        ELSE IF Me(t).err # NoErr
        THEN Raise(t, Me(t).err)
        ELSE Done(t, Me(t).ret))
    /\ UNCHANGED form
    /\ UNCHANGED <<cls_instance, db, instances, drivers, constraints, store, opsLeft, established>>

\* ------------------------------------------------------------ specification
Step(t) ==
    \/ Start(t)
    \/ NewCheck(t) \/ NewCreate(t) \/ NewReturn(t)
    \/ InitCheck(t) \/ InitAssign(t) \/ Bind(t)
    \/ ConnectCheck(t) \/ ConnectCreate(t) \/ ConnectProbeOpen(t) \/ ConnectProbe(t)
    \/ ConnectReturn(t)
    \/ CloseCheck(t) \/ CloseDriver(t) \/ CloseClear(t)
    \/ SessionOpen(t) \/ Run(t) \/ FetchAllList(t) \/ FetchOneSingle(t)
    \/ SessionFinally(t)

\* threads interleave freely
Next == \E t \in Threads : Step(t)

\* a single-threaded program: every call is made by the thread that imported
\* the module, each after the one before has returned or raised
NextSeq == Step(Importer)

Spec == Init /\ [][Next]_vars
SpecSeq == InitSeq /\ [][NextSeq]_vars
SpecRows == InitRows /\ [][NextSeq]_vars

\* ------------------------------------------------------------ models layer
\* A str is the sequence of its characters.
UpperChars == <<"A", "B", "C", "D", "E", "F", "G", "H", "I", "J", "K", "L", "M",
                "N", "O", "P", "Q", "R", "S", "T", "U", "V", "W", "X", "Y", "Z">>
LowerChars == <<"a", "b", "c", "d", "e", "f", "g", "h", "i", "j", "k", "l", "m",
                "n", "o", "p", "q", "r", "s", "t", "u", "v", "w", "x", "y", "z">>
IndexIn(chars, c) == CHOOSE i \in DOMAIN chars : chars[i] = c
LowerChar(c) ==
    IF \E i \in DOMAIN UpperChars : UpperChars[i] = c
    THEN LowerChars[IndexIn(UpperChars, c)] ELSE c
UpperChar(c) ==
    IF \E i \in DOMAIN LowerChars : LowerChars[i] = c
    THEN UpperChars[IndexIn(LowerChars, c)] ELSE c

\* v.lower()
LowerUnchanged(s) == s
Lower(s) == [i \in DOMAIN s |-> LowerChar(s[i])]

\* config.RULE_CATEGORIES and config.OBLIGATION_LEVELS, in the configured order
RULE_CATEGORIES ==
    << <<"d", "a", "t", "a">>,
       <<"v", "a", "l", "i", "d", "a", "t", "i", "o", "n">>,
       <<"c", "a", "l", "c", "u", "l", "a", "t", "i", "o", "n">>,
       <<"p", "r", "o", "c", "e", "s", "s">>,
       <<"r", "e", "p", "o", "r", "t", "i", "n", "g">>,
       <<"c", "o", "m", "p", "l", "i", "a", "n", "c", "e">> >>
OBLIGATION_LEVELS ==
    << <<"m", "a", "n", "d", "a", "t", "o", "r", "y">>,
       <<"c", "o", "n", "d", "i", "t", "i", "o", "n", "a", "l">>,
       <<"o", "p", "t", "i", "o", "n", "a", "l">> >>

\* the values of the members of the enumerations RuleCategory and ObligationLevel
RuleCategory ==
    { <<"d", "a", "t", "a">>,
      <<"v", "a", "l", "i", "d", "a", "t", "i", "o", "n">>,
      <<"c", "a", "l", "c", "u", "l", "a", "t", "i", "o", "n">>,
      <<"p", "r", "o", "c", "e", "s", "s">>,
      <<"r", "e", "p", "o", "r", "t", "i", "n", "g">>,
      <<"c", "o", "m", "p", "l", "i", "a", "n", "c", "e">> }
ObligationLevel ==
    { <<"m", "a", "n", "d", "a", "t", "o", "r", "y">>,
      <<"c", "o", "n", "d", "i", "t", "i", "o", "n", "a", "l">>,
      <<"o", "p", "t", "i", "o", "n", "a", "l">> }

\* Python values: None, a str, a list, a member of a str enumeration (which is
\* a str too), an argument that was not passed, and the ValueError a validator
\* raises for the value s
PyNone == [kind |-> "none", s |-> <<>>]
Absent == [kind |-> "absent", s |-> <<>>]
Str(s) == [kind |-> "str", s |-> s]
List(s) == [kind |-> "list", s |-> s]
Member(s) == [kind |-> "enum", s |-> s]
ValueError(s) == [kind |-> "error", s |-> s]
Missing == [kind |-> "missing", s |-> <<>>]
IsInstanceStr(v) == v.kind \in {"str", "enum"}
IsError(v) == v.kind \in {"error", "missing"}

\* v.lower() not in [x.lower() for x in allowed]
NotIn(v, allowed) == \A i \in DOMAIN allowed : Lower(v.s) # Lower(allowed[i])
\* for x in allowed: if v.lower() == x.lower(): return x
FirstMatch(v, allowed) ==
    allowed[CHOOSE i \in DOMAIN allowed :
                /\ Lower(v.s) = Lower(allowed[i])
                /\ \A j \in 1..(i - 1) : Lower(v.s) # Lower(allowed[j])]

\* RuleBase.validate_category and RuleBase.validate_obligation_level
RuleBase_validate_category(v) ==
    IF IsInstanceStr(v)
    THEN IF NotIn(v, RULE_CATEGORIES)
         THEN ValueError(v.s)
         ELSE Str(FirstMatch(v, RULE_CATEGORIES))
    ELSE v
RuleBase_validate_obligation_level(v) ==
    IF IsInstanceStr(v)
    THEN IF NotIn(v, OBLIGATION_LEVELS)
         THEN ValueError(v.s)
         ELSE Str(FirstMatch(v, OBLIGATION_LEVELS))
    ELSE v

\* RuleUpdate.validate_category and RuleUpdate.validate_obligation_level
RuleUpdate_validate_unnormalized(v) == v
RuleUpdate_validate_category(v) ==
    IF v = PyNone
    THEN v
    ELSE IF IsInstanceStr(v)
    THEN IF NotIn(v, RULE_CATEGORIES)
         THEN ValueError(v.s)
         ELSE Str(FirstMatch(v, RULE_CATEGORIES))
    ELSE v
RuleUpdate_validate_obligation_level(v) ==
    IF v = PyNone
    THEN v
    ELSE IF IsInstanceStr(v)
    THEN IF NotIn(v, OBLIGATION_LEVELS)
         THEN ValueError(v.s)
         ELSE Str(FirstMatch(v, OBLIGATION_LEVELS))
    ELSE v

\* What pydantic makes of the value a pre-validator returned for a field
\* annotated with a str enumeration (Optional or not): the member with that
\* value, None where None is allowed, a validation error otherwise.
EnumField(v, enum, optional) ==
    CASE IsError(v) -> v
      [] v = PyNone -> IF optional THEN v ELSE ValueError(v.s)
      [] IsInstanceStr(v) -> IF v.s \in enum THEN Member(v.s) ELSE ValueError(v.s)
      [] OTHER -> ValueError(v.s)
\* the same for the fields annotated str / Optional[str]
StrField(v, optional) ==
    CASE v = PyNone -> IF optional THEN v ELSE ValueError(v.s)
      [] IsInstanceStr(v) -> Str(v.s)
      [] OTHER -> ValueError(v.s)

\* the fields of a rule the model follows (the other free-text and list fields
\* are declared like description and data_elements)
Fields == {"name", "description", "category", "obligation_level", "data_elements"}
EnumFields == {"category", "obligation_level"}

\* RuleCreate (RuleBase): name, description, category and obligation_level are
\* required (Field(...)), data_elements defaults to a new empty list
RuleCreateField(f, a) ==
    CASE f = "category" ->
            IF a = Absent THEN Missing
            ELSE EnumField(RuleBase_validate_category(a), RuleCategory, FALSE)
      [] f = "obligation_level" ->
            IF a = Absent THEN Missing
            ELSE EnumField(RuleBase_validate_obligation_level(a), ObligationLevel, FALSE)
      [] f = "data_elements" -> IF a = Absent THEN List(<<>>) ELSE a
      [] OTHER -> IF a = Absent THEN Missing ELSE StrField(a, FALSE)

\* RuleUpdate: every field is Optional and defaults to None; validators do not
\* run on a default
RuleUpdateField(f, a) ==
    IF a = Absent THEN PyNone
    ELSE CASE f = "category" ->
                 EnumField(RuleUpdate_validate_category(a), RuleCategory, TRUE)
           [] f = "obligation_level" ->
                 EnumField(RuleUpdate_validate_obligation_level(a), ObligationLevel, TRUE)
           [] f = "data_elements" -> a
           [] OTHER -> StrField(a, TRUE)

ModelField(cls, f, a) ==
    IF cls = "RuleCreate" THEN RuleCreateField(f, a) ELSE RuleUpdateField(f, a)

\* cls(**args): the object, or the ValidationError listing the fields in error
Construct(cls, args) ==
    LET values == [f \in Fields |-> ModelField(cls, f, args[f])]
    IN [ok |-> \A f \in Fields : ~IsError(values[f]),
        values |-> values,
        fields_set |-> {f \in Fields : args[f] # Absent}]

\* the repository's update(rule_id, RuleUpdate): the fields the update carries
\* are written over the stored rule, the others are left as stored; a field is
\* carried when the update holds a value for it, i.e. anything but None
Carried(upd) == {f \in Fields : upd.values[f] # PyNone}
Update(stored, upd) ==
    [f \in Fields |-> IF f \in Carried(upd) THEN upd.values[f] ELSE stored[f]]

\* ------------------------------------------------------ inputs to the models
Recase(s, ups) == [i \in DOMAIN s |-> IF i \in ups THEN UpperChar(s[i]) ELSE s[i]]
Configured == {RULE_CATEGORIES[i] : i \in DOMAIN RULE_CATEGORIES}
                  \cup {OBLIGATION_LEVELS[i] : i \in DOMAIN OBLIGATION_LEVELS}
\* the spellings of every configured name with up to MaxUpper letters in upper
\* case, and the spelling all in upper case
CaseVariants ==
    UNION {{Recase(m, ups) : ups \in {u \in SUBSET DOMAIN m :
                                        Cardinality(u) <= MaxUpper \/ u = DOMAIN m}} :
           m \in Configured}
\* names that are no configured name in any case
Others ==
    {<<>>, <<"x">>}
        \cup UNION {{Append(m, "s"), <<" ">> \o m, Tail(m), Append(m, " "),
                     Recase(Append(m, "s"), DOMAIN m), Recase(Tail(m), {1})} : m \in Configured}
InputStrings == CaseVariants \cup Others

OldText == <<"o", "l", "d">>
NewText == <<"n", "e", "w">>
\* the rule the store holds before an update
StoredRule ==
    [f \in Fields |->
        CASE f = "category" -> Member(RULE_CATEGORIES[2])
          [] f = "obligation_level" -> Member(OBLIGATION_LEVELS[1])
          [] f = "data_elements" -> List(<<"customer_income">>)
          [] OTHER -> Str(OldText)]

\* the arguments of a call: field gets arg; a creation gets its other required
\* fields too, an update gets description as well when desc is not Absent
Args(cls, field, arg, desc) ==
    [f \in Fields |->
        IF f = field THEN arg
        ELSE IF cls = "RuleCreate"
        THEN CASE f = "category" -> Str(RULE_CATEGORIES[1])
               [] f = "obligation_level" -> Str(OBLIGATION_LEVELS[1])
               [] f = "data_elements" -> Absent
               [] OTHER -> Str(NewText)
        ELSE IF f = "description" THEN desc ELSE Absent]

EnumArgs == {Absent, PyNone} \cup {Str(s) : s \in InputStrings}

InitModels ==
    /\ InitBut /\ store = <<>> /\ opsLeft = 0
    /\ \E cls \in {"RuleCreate", "RuleUpdate"}, field \in EnumFields, arg \in EnumArgs,
          desc \in {Absent, Str(NewText)} :
        /\ cls = "RuleCreate" => desc = Absent
        /\ form = [pc |-> "args", cls |-> cls, field |-> field,
                   args |-> Args(cls, field, arg, desc),
                   obj |-> PyNone, again |-> PyNone, stored |-> StoredRule]

\* the caller builds the model object from the arguments
ConstructModel ==
    /\ form.pc = "args"
    /\ form' = [form EXCEPT !.pc = "built", !.obj = Construct(form.cls, form.args)]
    /\ UNCHANGED dbvars

\* the caller passes the value the object holds for the field to the same
\* class again
ConstructAgain ==
    /\ form.pc = "built"
    /\ form.obj.ok
    /\ form' = [form EXCEPT !.pc = "rebuilt",
                            !.again = Construct(form.cls,
                                [form.args EXCEPT ![form.field] = form.obj.values[form.field]])]
    /\ UNCHANGED dbvars

\* the repository applies a valid update to the stored rule
ApplyUpdate ==
    /\ form.pc = "built"
    /\ form.cls = "RuleUpdate"
    /\ form.obj.ok
    /\ form' = [form EXCEPT !.pc = "applied", !.stored = Update(form.stored, form.obj)]
    /\ UNCHANGED dbvars

NextModels == ConstructModel \/ ConstructAgain \/ ApplyUpdate
SpecModels == InitModels /\ [][NextModels]_vars

\* ---------------------------------------------------------------- RuleFilter
FilterFields == {"rule_id", "name", "category", "obligation_level", "data_element",
                 "effective_date_from", "effective_date_to", "search_text",
                 "related_to_rule_id"}
Date(n) == [kind |-> "date", s |-> <<n>>]

\* every field of RuleFilter is declared Optional[...] = None
RuleFilterDefaultEmpty(f) == Str(<<>>)
RuleFilterDefault(f) == PyNone

\* RuleFilter has no validator of its own: category and obligation_level must
\* be the value of a member as it stands, the other fields are taken as given
RuleFilterField(f, a) ==
    IF a = Absent THEN RuleFilterDefault(f)
    ELSE CASE f = "category" -> EnumField(a, RuleCategory, TRUE)
           [] f = "obligation_level" -> EnumField(a, ObligationLevel, TRUE)
           [] OTHER -> a

\* RuleFilter(**args)
ConstructFilter(args) ==
    LET values == [f \in FilterFields |-> RuleFilterField(f, args[f])]
    IN [ok |-> \A f \in FilterFields : ~IsError(values[f]),
        values |-> values,
        fields_set |-> {f \in FilterFields : args[f] # Absent}]

\* needle occurs in hay
Contains(hay, needle) ==
    \E i \in 1..(Len(hay) + 1) :
        /\ i + Len(needle) - 1 <= Len(hay)
        /\ SubSeq(hay, i, i + Len(needle) - 1) = needle
Elements(list) == {list.s[i] : i \in DOMAIN list.s}

\* The filter query builder: every populated field of the filter contributes
\* one predicate, the predicates are ANDed, a field that is not populated
\* contributes nothing.
Populated(flt) == {f \in FilterFields : flt.values[f] # PyNone}
Satisfies(r, f, val, rules) ==
    CASE f = "rule_id" -> r.rule_id = val
      [] f = "name" -> r.name = val
      [] f = "category" -> r.category = val
      [] f = "obligation_level" -> r.obligation_level = val
      [] f = "data_element" -> val.s \in Elements(r.data_elements)
      [] f = "effective_date_from" ->
            r.effective_date # PyNone /\ val.kind = "date"
                /\ r.effective_date.s[1] >= val.s[1]
      [] f = "effective_date_to" ->
            r.effective_date # PyNone /\ val.kind = "date"
                /\ r.effective_date.s[1] <= val.s[1]
      [] f = "search_text" ->
            \/ Contains(Lower(r.name.s), Lower(val.s))
            \/ Contains(Lower(r.description.s), Lower(val.s))
      [] f = "related_to_rule_id" ->
            \/ val.s \in Elements(r.related_rules)
            \/ \E q \in rules : q.rule_id = val /\ r.rule_id.s \in Elements(q.related_rules)
FilterRules(rules, flt) ==
    {r \in rules : \A f \in Populated(flt) : Satisfies(r, f, flt.values[f], rules)}

\* ------------------------------------------------------ inputs to the filter
R1 == <<"R", "1">>
R2 == <<"R", "2">>
R3 == <<"R", "3">>
Income == <<"i", "n", "c">>
RulePool ==
    { [rule_id |-> Str(R1), name |-> Str(<<"I", "n", "c", " ", "V">>), description |-> Str(OldText),
       category |-> Member(RULE_CATEGORIES[2]), obligation_level |-> Member(OBLIGATION_LEVELS[1]),
       data_elements |-> List(<<Income>>), effective_date |-> Date(2),
       related_rules |-> List(<<R2>>)],
      [rule_id |-> Str(R2), name |-> Str(<<"R", "e", "p">>), description |-> Str(<<"a", " ", "i", "n", "c">>),
       category |-> Member(RULE_CATEGORIES[5]), obligation_level |-> Member(OBLIGATION_LEVELS[3]),
       data_elements |-> List(<<>>), effective_date |-> PyNone,
       related_rules |-> List(<<>>)],
      [rule_id |-> Str(R3), name |-> Str(NewText), description |-> Str(NewText),
       category |-> Member(RULE_CATEGORIES[1]), obligation_level |-> Member(OBLIGATION_LEVELS[2]),
       data_elements |-> List(<<Income>>), effective_date |-> Date(3),
       related_rules |-> List(<<>>)] }

\* the values a caller may give for a filter field
FilterArgs(f) ==
    CASE f = "rule_id" -> {Str(R1)}
      [] f = "name" -> {Str(NewText)}
      [] f = "category" -> {PyNone, Str(RULE_CATEGORIES[2]), Str(Recase(RULE_CATEGORIES[1], {1}))}
      [] f = "obligation_level" -> {Str(OBLIGATION_LEVELS[1])}
      [] f = "data_element" -> {Str(Income)}
      [] f = "effective_date_from" -> {Date(2), Date(3)}
      [] f = "effective_date_to" -> {Date(2)}
      [] f = "search_text" -> {Str(Recase(Income, {2}))}
      [] f = "related_to_rule_id" -> {Str(R1), Str(R2)}

InitFilter ==
    /\ InitBut /\ store = <<>> /\ opsLeft = 0
    /\ \E given \in SUBSET FilterFields, rules \in SUBSET RulePool :
        /\ Cardinality(given) <= MaxGiven
        /\ \E vals \in [given -> UNION {FilterArgs(f) : f \in given}] :
            /\ \A f \in given : vals[f] \in FilterArgs(f)
            /\ form = [pc |-> "args", cls |-> "RuleFilter",
                       args |-> [f \in FilterFields |->
                                    IF f \in given THEN vals[f] ELSE Absent],
                       obj |-> PyNone, rules |-> rules, found |-> {}]

\* the caller builds the filter from the arguments
ConstructRuleFilter ==
    /\ form.pc = "args"
    /\ form' = [form EXCEPT !.pc = "built", !.obj = ConstructFilter(form.args)]
    /\ UNCHANGED dbvars

\* the repository answers a search with a valid filter
Search ==
    /\ form.pc = "built"
    /\ form.obj.ok
    /\ form' = [form EXCEPT !.pc = "searched", !.found = FilterRules(form.rules, form.obj)]
    /\ UNCHANGED dbvars

NextFilter == ConstructRuleFilter \/ Search
SpecFilter == InitFilter /\ [][NextFilter]_vars

\* ------------------------------------------------------------------ claims
Held == instances[db].driver
LiveDrivers == {d \in DOMAIN drivers : drivers[d].open}
Returned(t, op) == Me(t).pc = "done" /\ Me(t).op = op
\* thread t takes the step that starts at pc
Steps(t, pc) == Me(t).pc = pc /\ threads'[t] # Me(t)
\* the with block of a session is executing, or being left
InScope(t) == Me(t).pc \in {"c_probe", "run", "fa_list", "fo_single", "g_finally"}
SessionIds == UNION {{t} \X DOMAIN sessions[t] : t \in Threads}
SessionOf(id) == sessions[id[1]][id[2]]
\* the columns of a record, and a dict that carries exactly its pairs
Columns(rec) == {rec[j][1] : j \in DOMAIN rec}
Carries(m, rec) ==
    /\ DOMAIN m = Columns(rec)
    /\ \A j \in DOMAIN rec : m[rec[j][1]] = rec[j][2]

\* C1: callers that invoke connect() concurrently while no connection exists
\* (no driver has been closed yet) make one driver between them: at most one
\* driver has been created, and every connect() that has returned, returned it.
C1_ConcurrentConnectOneDriver ==
    (\A d \in DOMAIN drivers : drivers[d].open) =>
        /\ Len(drivers) <= 1
        /\ \A t \in Threads :
            (Returned(t, "connect") /\ Me(t).ret.kind = "driver") => Me(t).ret.val = 1

\* C2: every Neo4jDatabase() returns the one instance (the one db is bound to),
\* whose fields have been initialised once; and no step of a construction
\* changes the driver an instance holds.
C2_OneInstance ==
    /\ Len(instances) <= 1
    /\ \A i \in DOMAIN instances : instances[i].inits <= 1
    /\ \A t \in Threads :
        Returned(t, "construct") =>
            /\ Me(t).ret = RetInstance(db)
            /\ instances[db].initialized
            /\ instances[db].inits = 1
C2_DriverKept ==
    \A t \in Threads :
        (Me(t).op = "construct" /\ threads'[t] # Me(t)) =>
            \A i \in DOMAIN instances :
                instances[i].driver # NONE =>
                    (i \in DOMAIN instances' /\ instances'[i].driver = instances[i].driver)
C2_SingletonConstruction == []C2_OneInstance /\ [][C2_DriverKept]_vars
\* a constructor has returned while the instance holds a driver
C2_Witness ==
    \E t \in Threads : Returned(t, "construct") /\ db # NONE /\ Held # NONE

\* C3: in a single-threaded run of any calls, failing ones included, at most
\* one driver is created and not yet closed.
C3_AtMostOneLiveDriver == Cardinality(LiveDrivers) <= 1
\* a second driver has been created after the first was closed
C3_Witness == Len(drivers) = 2 /\ LiveDrivers = {2} /\ Held = 2

\* C4: once a connect() has returned a driver and until close() is called,
\* the manager keeps that driver, no connect() is creating or probing one, and
\* every connect() that returns, returns that driver.
C4_ConnectIdempotent ==
    established # NONE =>
        /\ Held = established
        /\ \A t \in Threads :
            /\ Me(t).pc \notin {"c_create", "c_probe_open", "c_probe"}
            /\ Returned(t, "connect") => Me(t).ret = RetDriver(established)
\* a further connect() is about to return, after one has succeeded
C4_Witness ==
    \E t \in Threads :
        Me(t).pc = "c_return" /\ Me(t).op = "connect" /\ established # NONE

\* C5: when the probe has come back with a value other than the sentinel, the
\* call fails with ConnectionVerificationFailed and returns nothing.
C5_ProbeMismatchFails ==
    \A t \in Threads :
        (Me(t).tv # <<>> /\ Me(t).tv # <<Sentinel>>) =>
            /\ Me(t).pc = "raised"
            /\ Me(t).err = ConnectionVerificationFailed
            /\ Me(t).ret.kind = "none"
\* a connect() whose driver was created and whose probe returned 0 has failed
C5_Witness ==
    \E t \in Threads :
        Me(t).tv = <<0>> /\ Me(t).op = "connect" /\ Me(t).pc = "raised" /\ Len(drivers) > 0

\* C6: in a single-threaded run, when close() has returned the manager holds no
\* driver and no driver is left open, and close() never raises; a close() that
\* finds no driver returns at once and changes nothing; the connect() called
\* right after a close() returns an open driver (so not the one closed) that it
\* has probed itself.
C6_AfterClose ==
    \A t \in Threads :
        /\ Me(t).op = "close" => Me(t).pc # "raised"
        /\ Returned(t, "close") => (Held = NONE /\ LiveDrivers = {})
        /\ (Returned(t, "connect") /\ Me(t).afterClose) =>
            /\ Me(t).ret.kind = "driver"
            /\ Me(t).ret.val \in LiveDrivers
            /\ Me(t).ret.val = Held
            /\ drivers[Me(t).ret.val].probed
            /\ Me(t).tv = <<Sentinel>>
C6_CloseNoop ==
    \A t \in Threads :
        (Steps(t, "cl_check") /\ Held = NONE) =>
            /\ threads'[t].pc = "done"
            /\ threads'[t].ret = RetNone
            /\ UNCHANGED <<cls_instance, db, instances, drivers, sessions, constraints, store>>
C6_Close == []C6_AfterClose /\ [][C6_CloseNoop]_vars
\* connect(), close(), connect(): the second connect() has returned
C6_Witness ==
    \E t \in Threads :
        /\ Returned(t, "connect") /\ Me(t).afterClose
        /\ Len(drivers) = 2 /\ ~drivers[1].open

\* C7: a session that is not closed is the one its thread is inside the with
\* block of, and no session is closed twice: so every session has been closed
\* exactly once when its operation has returned or raised, abandonment
\* included; and the step that releases a session leaves every driver, and the
\* driver the manager holds, as they are.
C7_Released ==
    \A id \in SessionIds :
        /\ SessionOf(id).closes <= 1
        /\ SessionOf(id).closes = 0 => (InScope(id[1]) /\ Me(id[1]).session = id)
C7_DriverUntouched ==
    \A t \in Threads :
        Steps(t, "g_finally") => UNCHANGED <<drivers, instances, cls_instance, db>>
C7_SessionsReleased == []C7_Released /\ [][C7_DriverUntouched]_vars
\* an operation whose scope was abandoned has left, its session closed once
C7_Witness ==
    \E t \in Threads :
        /\ Me(t).pc = "raised" /\ Me(t).err = Err("GeneratorExit", "abandoned")
        /\ \E i \in DOMAIN sessions[t] : ~sessions[t][i].probe /\ sessions[t][i].closes = 1

\* C8: a thread inside a with block uses a session it has opened itself, the
\* newest of its own, and no other thread is using that session; a thread that
\* is in no operation has no session left open.
C8_SessionsNotShared ==
    \A t \in Threads :
        /\ InScope(t) =>
            /\ Me(t).session = <<t, Len(sessions[t])>>
            /\ \A u \in Threads \ {t} : InScope(u) => Me(u).session # Me(t).session
        /\ Me(t).pc \in IdlePcs => \A i \in DOMAIN sessions[t] : sessions[t][i].closes > 0
\* two operations are running their queries at once, on the same driver
C8_Witness ==
    /\ \A t \in Threads : Me(t).pc = "run"
    /\ \A t, u \in Threads : SessionOf(Me(t).session).driver = SessionOf(Me(u).session).driver

\* C9: what fetch_all returns is a list with one dict per row the store holds
\* for the query, in the store's order, each carrying exactly the pairs of its
\* row; with no rows it is the empty list, not None.
C9_FetchAllRows ==
    \A t \in Threads :
        Returned(t, "fetch_all") =>
            /\ Me(t).ret.kind = "list"
            /\ Len(Me(t).ret.val) = Len(store)
            /\ \A i \in DOMAIN store : Carries(Me(t).ret.val[i], store[i])
\* fetch_all has returned two rows of different shapes
C9_Witness ==
    \E t \in Threads :
        /\ Returned(t, "fetch_all") /\ Len(store) = 2
        /\ Columns(store[1]) # Columns(store[2])

\* C10: fetch_one returns None when the query matches no row, and the dict of
\* the row when it matches exactly one.
C10_FetchOneRow ==
    \A t \in Threads :
        Returned(t, "fetch_one") =>
            /\ Len(store) = 0 => Me(t).ret.kind = "none"
            /\ Len(store) = 1 =>
                (Me(t).ret.kind = "dict" /\ Carries(Me(t).ret.val, store[1]))
\* fetch_one has returned the dict of the only row
C10_Witness ==
    \E t \in Threads :
        Returned(t, "fetch_one") /\ Len(store) = 1 /\ Me(t).ret.kind = "dict"

\* C11: with more than one row matching, fetch_one is not failed by the number
\* of rows (no error about the result not being single is raised, in the with
\* block or to the caller), and what it returns is the dict of the first row.
C11_FetchOneFirstOfMany ==
    \A t \in Threads :
        (Me(t).op = "fetch_one" /\ Len(store) > 1) =>
            /\ Me(t).err.type # "ResultNotSingleError"
            /\ Me(t).pc = "done" =>
                (Me(t).ret.kind = "dict" /\ Carries(Me(t).ret.val, store[1]))
\* fetch_one has returned from a query matching two rows of different shapes
C11_Witness ==
    \E t \in Threads :
        /\ Returned(t, "fetch_one") /\ Len(store) = 2
        /\ Columns(store[1]) # Columns(store[2])
        /\ Me(t).ret.kind = "dict"

AllConstraints == SetToBag({ConstraintNames[i] : i \in DOMAIN ConstraintNames})

\* C12: create_constraints can be repeated.  No statement is refused because its
\* constraint exists already, no constraint is ever held twice, an invocation
\* that returns leaves exactly the three uniqueness constraints, and once the
\* three are there no later invocation changes them.
C12_Established ==
    /\ \A t \in Threads :
        Me(t).op = "create_constraints" =>
            /\ Me(t).err # AlreadyExists
            /\ Me(t).pc = "done" => constraints = AllConstraints
    /\ \A n \in BagToSet(constraints) : CopiesIn(n, constraints) = 1
C12_Repeated == constraints = AllConstraints => constraints' = constraints
C12_ConstraintsIdempotent == []C12_Established /\ [][C12_Repeated]_vars
\* a later invocation has had its first statement accepted by a store that
\* already holds the three constraints
C12_Witness ==
    \E t \in Threads :
        /\ Me(t).op = "create_constraints" /\ Me(t).pc = "g_finally"
        /\ Me(t).ci = 1 /\ Me(t).err = NoErr
        /\ constraints = AllConstraints

\* the sessions thread t has opened are all released
AllReleased(t) == \A i \in DOMAIN sessions[t] : sessions[t][i].closes > 0

\* C13: a failure while a statement of create_constraints is issued reaches the
\* caller unchanged: the step that leaves the failed statement raises that very
\* exception and creates nothing, no later statement is issued (the call is over
\* at the statement that failed), and the caller finds no session left open.
C13_Raised ==
    \A t \in Threads :
        (Me(t).op = "create_constraints" /\ Me(t).pc = "raised") =>
            /\ Me(t).err # NoErr
            /\ Me(t).ci \in DOMAIN ConstraintNames
            /\ AllReleased(t)
C13_Propagates ==
    \A t \in Threads :
        (Me(t).op = "create_constraints" /\ Me(t).err # NoErr /\ Steps(t, "g_finally")) =>
            /\ threads'[t].pc = "raised"
            /\ threads'[t].err = Me(t).err
            /\ threads'[t].ci = Me(t).ci
            /\ constraints' = constraints
C13_FailurePropagates == []C13_Raised /\ [][C13_Propagates]_vars
\* the second statement failed in a store that held no constraint before: only
\* the first constraint exists, the third statement was never issued
C13_Witness ==
    \E t \in Threads :
        /\ Me(t).op = "create_constraints" /\ Me(t).pc = "raised"
        /\ Me(t).ci = 2 /\ Me(t).err \in BodyErrors
        /\ constraints = SetToBag({ConstraintNames[1]})
        /\ sessions[t] # <<>> /\ AllReleased(t)

\* the object was built from a str given for the field under test
GivenStr == form.pc # "args" /\ form.args[form.field].kind = "str"
Given == form.args[form.field].s
Allowed(f) == IF f = "category" THEN RULE_CATEGORIES ELSE OBLIGATION_LEVELS
\* the configured names the string s matches when case is ignored
Matching(f, s) ==
    {i \in DOMAIN Allowed(f) :
        /\ Len(Allowed(f)[i]) = Len(s)
        /\ \A k \in DOMAIN s : s[k] \in {LowerChar(Allowed(f)[i][k]), UpperChar(Allowed(f)[i][k])}}

\* C14: on creation, a string given for category or obligation_level that is a
\* configured name in some casing yields the object holding that name exactly
\* as configured; a string that is no configured name in any casing yields a
\* validation error for that value and no object; giving the validated value
\* again yields the same object.
C14_EnumNormalized ==
    (form.pc # "none" /\ form.cls = "RuleCreate" /\ GivenStr) =>
        LET hits == Matching(form.field, Given)
            held == form.obj.values[form.field] IN
        /\ hits # {} =>
                /\ form.obj.ok
                /\ \E i \in hits : held = Member(Allowed(form.field)[i])
        /\ hits = {} => (~form.obj.ok /\ held = ValueError(Given))
        /\ form.pc = "rebuilt" => form.again = form.obj
\* "VALIDATION" was given for category and "validation" given again
C14_Witness ==
    /\ form.pc = "rebuilt" /\ form.cls = "RuleCreate" /\ form.field = "category"
    /\ form.args["category"] = Str(Recase(RULE_CATEGORIES[2], DOMAIN RULE_CATEGORIES[2]))
    /\ form.obj.values["category"] = Member(RULE_CATEGORIES[2])
\* a string that is no configured name was rejected on creation
C14_WitnessRejected ==
    /\ form.pc = "built" /\ form.cls = "RuleCreate" /\ GivenStr
    /\ Matching(form.field, Given) = {}
    /\ ~form.obj.ok

\* C15: a RuleUpdate given a string for category or obligation_level accepts or
\* rejects it as creation does and holds the same value; a RuleUpdate not given
\* the field is valid, holds None for it and carries nothing for it, so that
\* applying the update leaves the stored field as it was; an update given only
\* description changes description and no other stored field.
C15_UpdateAsCreate ==
    (form.pc \notin {"none", "args"} /\ form.cls = "RuleUpdate") =>
        LET given == form.args[form.field]
            held == form.obj.values[form.field] IN
        /\ given.kind = "str" =>
                /\ held = RuleCreateField(form.field, given)
                /\ form.obj.ok = ~IsError(RuleCreateField(form.field, given))
        /\ given = Absent =>
                /\ form.obj.ok
                /\ held = PyNone
                /\ form.field \notin form.obj.fields_set
                /\ form.field \notin Carried(form.obj)
                /\ form.pc = "applied" => form.stored[form.field] = StoredRule[form.field]
        /\ (form.pc = "applied" /\ form.obj.fields_set = {"description"}) =>
                /\ form.stored["description"] = Str(NewText)
                /\ \A f \in Fields \ {"description"} : form.stored[f] = StoredRule[f]
\* an update given "MAndatory" was applied: the store holds mandatory
C15_Witness ==
    /\ form.pc = "applied" /\ form.cls = "RuleUpdate"
    /\ form.args["obligation_level"] = Str(Recase(OBLIGATION_LEVELS[1], {1, 2}))
    /\ form.stored["obligation_level"] = Member(OBLIGATION_LEVELS[1])
\* an update given only description was applied
C15_WitnessDescriptionOnly ==
    /\ form.pc = "applied" /\ form.cls = "RuleUpdate"
    /\ form.obj.fields_set = {"description"}
    /\ form.stored["description"] # StoredRule["description"]
\* an update was given a string that creation rejects
C15_WitnessRejected ==
    /\ form.pc = "built" /\ form.cls = "RuleUpdate" /\ GivenStr
    /\ ~form.obj.ok

\* C16: a search with a RuleFilter that has no field populated finds every
\* stored rule, so it finds some rule whenever a rule is stored.
C16_EmptyFilterFindsAll ==
    (form.pc = "searched" /\ form.cls = "RuleFilter"
        /\ \A f \in FilterFields : form.args[f] \in {Absent, PyNone}) =>
            /\ form.found = form.rules
            /\ form.rules # {} => form.found # {}
\* a filter built from no argument has searched a store of three rules
C16_Witness ==
    /\ form.pc = "searched" /\ form.cls = "RuleFilter"
    /\ form.obj.fields_set = {}
    /\ Cardinality(form.rules) = 3 /\ Cardinality(form.found) = 3
\* a filter with a field populated has found some of the stored rules only
C16_WitnessNarrowed ==
    /\ form.pc = "searched" /\ form.cls = "RuleFilter"
    /\ Populated(form.obj) # {}
    /\ form.found # {} /\ form.found # form.rules

\* a connect() is between creating its driver and finishing the probe
Connecting(t) == Me(t).pc \in {"c_probe_open", "c_probe"}
ConnectFailures == ConnectErrors \cup {ConnectionVerificationFailed}

\* C17: every driver the manager holds while no connect() is at work on it,
\* every driver connect() has returned and every driver get_session goes on to
\* use has passed the probe; once a call has failed in connect() the manager
\* holds no driver.
C17_OnlyProbedDrivers ==
    /\ (db # NONE /\ Held # NONE /\ \A t \in Threads : ~Connecting(t)) =>
            drivers[Held].probed
    /\ \A t \in Threads :
        /\ (Returned(t, "connect") /\ Me(t).ret.val # NONE) => drivers[Me(t).ret.val].probed
        /\ Me(t).driver # NONE => drivers[Me(t).driver].probed
        /\ (Me(t).pc = "raised" /\ Me(t).op = "connect" /\ Me(t).err \in ConnectFailures
                /\ \A u \in Threads \ {t} : Me(u).pc \in IdlePcs) => Held = NONE

\* C18: whatever close() and the queries of other threads do, a session that
\* is open belongs to a driver that is open (none is opened on a closed driver,
\* none is left open when its driver is closed), and get_session never goes on
\* to open a session on a driver that has been closed.
C18_NoSessionOnClosedDriver ==
    /\ \A id \in SessionIds :
        SessionOf(id).closes = 0 => drivers[SessionOf(id).driver].open
    /\ \A t \in Threads :
        (Me(t).pc = "g_open" /\ Me(t).driver # NONE) => drivers[Me(t).driver].open

\* C19: rows are read from a session that is still open: fetch_all and
\* fetch_one read their rows while their session is open, and the result
\* execute_query has handed to its caller belongs to a session that has not
\* been released.
C19_RowsReadWhileSessionOpen ==
    \A t \in Threads :
        /\ Me(t).pc \in {"fa_list", "fo_single"} => SessionOf(Me(t).session).closes = 0
        /\ (Returned(t, "execute_query") /\ Me(t).ret.kind = "result") =>
                SessionOf(Me(t).ret.val).closes = 0

====
